---- MODULE Spec2Model ----
(***************************************************************************)
(* Model of main.py: the game generation endpoint (generate_game), the     *)
(* retrieval endpoint (get_game) and the games directory they share.       *)
(*                                                                         *)
(* A text (a Python str) is a sequence of one-character strings.  The      *)
(* games directory is a function from file stems (texts) to file contents  *)
(* (texts as stored after newline translation on write).                   *)
(***************************************************************************)
EXTENDS Integers, Sequences, FiniteSets, TLC

(***************************************************************************)
(* Bounds of the model.                                                    *)
(***************************************************************************)
\* number of identifiers uuid4 can draw, hence of games that can be stored
MaxGames == 2
\* number of leading fence markers the generated raw texts carry
MaxFences == 2

(***************************************************************************)
(* Python str helpers, computed character by character.                    *)
(***************************************************************************)
\* the ASCII characters str.strip() removes (str.isspace)
WHITESPACE == {" ", "\t", "\n", "\r", "\f"}

UPPERCASE == <<"A","B","C","D","E","F","G","H","I","J","K","L","M",
               "N","O","P","Q","R","S","T","U","V","W","X","Y","Z">>
LOWERCASE == <<"a","b","c","d","e","f","g","h","i","j","k","l","m",
               "n","o","p","q","r","s","t","u","v","w","x","y","z">>

UPPER_OF == [c \in {LOWERCASE[i] : i \in 1..26} |->
                 UPPERCASE[CHOOSE i \in 1..26 : LOWERCASE[i] = c]]
LOWER_OF == [c \in {UPPERCASE[i] : i \in 1..26} |->
                 LOWERCASE[CHOOSE i \in 1..26 : UPPERCASE[i] = c]]

lower_char(c) == IF c \in DOMAIN LOWER_OF THEN LOWER_OF[c] ELSE c

upper_char(c) == IF c \in DOMAIN UPPER_OF THEN UPPER_OF[c] ELSE c

\* str.lower()
lower(s) == [i \in 1..Len(s) |-> lower_char(s[i])]

\* str.upper()
upper(s) == [i \in 1..Len(s) |-> upper_char(s[i])]

\* str.startswith(prefix)
startswith(s, prefix) ==
    /\ Len(prefix) <= Len(s)
    /\ SubSeq(s, 1, Len(prefix)) = prefix

\* str.endswith(suffix)
endswith(s, suffix) ==
    /\ Len(suffix) <= Len(s)
    /\ SubSeq(s, Len(s) - Len(suffix) + 1, Len(s)) = suffix

\* s[n:]
drop_first(s, n) == SubSeq(s, n + 1, Len(s))

\* s[:-n]
drop_last(s, n) == SubSeq(s, 1, Len(s) - n)

\* str.lstrip(chars) / str.rstrip(chars) / str.strip(chars)
RECURSIVE lstrip_chars(_, _)
lstrip_chars(s, chars) ==
    IF s # <<>> /\ Head(s) \in chars THEN lstrip_chars(Tail(s), chars) ELSE s

RECURSIVE rstrip_chars(_, _)
rstrip_chars(s, chars) ==
    IF s # <<>> /\ s[Len(s)] \in chars
    THEN rstrip_chars(drop_last(s, 1), chars)
    ELSE s

strip_chars(s, chars) == rstrip_chars(lstrip_chars(s, chars), chars)

\* str.strip()
strip(s) == strip_chars(s, WHITESPACE)

\* str.replace(old, "") : every non-overlapping occurrence, left to right
RECURSIVE remove_all(_, _)
remove_all(s, old) ==
    IF s = <<>> THEN <<>>
    ELSE IF startswith(s, old) THEN remove_all(drop_first(s, Len(old)), old)
    ELSE <<Head(s)>> \o remove_all(Tail(s), old)

(***************************************************************************)
(* Newline translation of text-mode files (newline=None).                  *)
(***************************************************************************)
\* os.linesep of the host (POSIX)
os_linesep == <<"\n">>

\* Path.write_text: every "\n" is written as os.linesep
RECURSIVE write_translate(_)
write_translate(s) ==
    IF s = <<>> THEN <<>>
    ELSE IF Head(s) = "\n" THEN os_linesep \o write_translate(Tail(s))
    ELSE <<Head(s)>> \o write_translate(Tail(s))

\* Path.read_text: universal newlines, "\r\n" and "\r" are read as "\n"
RECURSIVE read_translate(_)
read_translate(s) ==
    IF s = <<>> THEN <<>>
    ELSE IF startswith(s, <<"\r", "\n">>)
         THEN <<"\n">> \o read_translate(drop_first(s, 2))
    ELSE IF Head(s) = "\r" THEN <<"\n">> \o read_translate(Tail(s))
    ELSE <<Head(s)>> \o read_translate(Tail(s))

(***************************************************************************)
(* uuid.UUID(hex) and uuid.uuid4(), as used by get_game and generate_game. *)
(***************************************************************************)
HEXDIGITS == {"0","1","2","3","4","5","6","7","8","9",
              "a","b","c","d","e","f","A","B","C","D","E","F"}

\* the digits of int(s, 16): hexadecimal digits, single underscores between
underscored_digits(d) ==
    /\ d # <<>>
    /\ d[1] \in HEXDIGITS
    /\ d[Len(d)] \in HEXDIGITS
    /\ \A i \in 1..Len(d) : d[i] \in HEXDIGITS \cup {"_"}
    /\ \A i \in 1..(Len(d) - 1) : ~(d[i] = "_" /\ d[i + 1] = "_")

\* int(s, 16) returns (TRUE) or raises ValueError (FALSE): surrounding
\* whitespace, a sign, a 0x prefix and underscores between digits are accepted
int16_parses(s) ==
    LET a == strip(s)
        b == IF a # <<>> /\ a[1] \in {"+", "-"} THEN Tail(a) ELSE a
        prefixed == startswith(lower(b), <<"0", "x">>)
        c == IF prefixed THEN drop_first(b, 2) ELSE b
        d == IF prefixed /\ c # <<>> /\ c[1] = "_" THEN Tail(c) ELSE c
    IN  underscored_digits(d)

\* uuid.UUID(game_id) returns (TRUE) or raises ValueError (FALSE)
UUID_parses(game_id) ==
    LET a == remove_all(remove_all(game_id, <<"u","r","n",":">>),
                        <<"u","u","i","d",":">>)
        b == remove_all(strip_chars(a, {"{", "}"}), <<"-">>)
    IN  /\ Len(b) = 32
        /\ int16_parses(b)

\* the identifiers str(uuid.uuid4()) can return in the model: lowercase,
\* hyphenated 8-4-4-4-12, version 4, one per n
uuid4_str(n) ==
    <<"3","f","a","8","5","c","0">> \o <<LOWERCASE[n]>> \o
    <<"-","9","b","2","e","-","4","d","7","1","-","a","6","c","4","-",
      "0","e","1","f","5","b","8","8","d","2","a","9">>

Uuids == {uuid4_str(n) : n \in 1..MaxGames}

(***************************************************************************)
(* The response clean-up of generate_game.                                 *)
(***************************************************************************)
\* the grave accent character U+0060, named because a TLA+ string literal
\* cannot hold it
BACKTICK == "U+0060"

FENCE_HTML == <<BACKTICK, BACKTICK, BACKTICK, "h","t","m","l">>
FENCE == <<BACKTICK, BACKTICK, BACKTICK>>
DOCTYPE == <<"<","!","d","o","c","t","y","p","e"," ","h","t","m","l">>

\* clean_html with the second test made an alternative of the first
clean_html_elif(text) ==
    LET a == strip(text)
        b == IF startswith(a, FENCE_HTML) THEN drop_first(a, 7)
             ELSE IF startswith(a, FENCE) THEN drop_first(a, 3)
             ELSE a
        c == IF endswith(b, FENCE) THEN drop_last(b, 3) ELSE b
    IN  strip(c)

\* html_content after the clean-up of the markdown code blocks
clean_html(text) ==
    LET a == strip(text)
        b == IF startswith(a, FENCE_HTML) THEN drop_first(a, 7) ELSE a
        c == IF startswith(b, FENCE) THEN drop_first(b, 3) ELSE b
        d == IF endswith(c, FENCE) THEN drop_last(c, 3) ELSE c
    IN  strip(d)

\* html_starts_correctly testing for an opening tag only
html_starts_with_tag(html_content) == startswith(html_content, <<"<">>)

\* the check that the lowercase html_content starts with the doctype
html_starts_correctly(html_content) ==
    startswith(lower(html_content), DOCTYPE)

(***************************************************************************)
(* Requests and outcomes the environment can supply.                       *)
(***************************************************************************)
\* a text field that holds no text
NoText == <<"<none>">>

\* Field(min_length=..., max_length=...) of GameRequest.prompt
min_length == 10
max_length == 1000

\* prompts, by their length: empty, around both limits
PromptLens == {0, min_length - 1, min_length, max_length, max_length + 1}

\* every sequence of at most n leading fence markers, concatenated
RECURSIVE FenceRuns(_)
FenceRuns(n) ==
    IF n = 0 THEN {<<>>}
    ELSE LET shorter == FenceRuns(n - 1)
         IN  shorter \cup {f \o m : f \in shorter, m \in {FENCE_HTML, FENCE}}

\* documents the generation service can answer with
DOC_LF == <<"<","!","d","o","c","t","y","p","e"," ","h","t","m","l",">",
            "\n","<","p",">">>
DOC_CRLF == <<"<","!","D","O","C","T","Y","P","E"," ","h","t","m","l",">",
              "\r","\n","<","p",">">>
NOT_DOC == <<"<","p",">","n","o","<","/","p",">">>

\* response.text of the generation service: a document or something else,
\* bare, padded with whitespace, or wrapped in fence markers
RawTexts ==
    { DOC_LF, DOC_CRLF, NOT_DOC, <<>>, FENCE_HTML,
      <<" ">> \o DOC_LF \o <<"\n">>,
      DOC_LF \o FENCE,
      FENCE_HTML \o <<"\n">> \o DOC_LF \o <<"\n">> \o FENCE,
      FENCE_HTML \o <<"\n">> \o DOC_CRLF \o <<"\r","\n">> \o FENCE \o <<"\n">>,
      FENCE \o <<"\n">> \o DOC_LF \o <<"\n">> \o FENCE,
      FENCE_HTML \o <<"\n">> \o NOT_DOC \o <<"\n">> \o FENCE }
      \cup {f \o DOC_LF : f \in FenceRuns(MaxFences)}

\* messages of the exceptions model.generate_content can raise
GenerationErrors == {"429 quota exceeded"}

\* the game_id path parameters sent to get_game: the identifiers uuid4 can
\* issue, other spellings of them, and strings that are no UUID
GameIdsOf(u) ==
    { u,
      upper(u),
      remove_all(u, <<"-">>),
      <<"{">> \o u \o <<"}">>,
      <<"u","r","n",":","u","u","i","d",":">> \o u,
      <<"0","x">> \o SubSeq(remove_all(u, <<"-">>), 1, 30),
      [u EXCEPT ![1] = "g"] }

GameIds ==
    Uuids \cup GameIdsOf(uuid4_str(1))
      \cup {<<"n","o","t","-","a","-","u","u","i","d">>}

\* clean_html and UUID_parses over the inputs above, computed once
cleaned == [text \in RawTexts |-> clean_html(text)]
parses == [game_id \in GameIds |-> UUID_parses(game_id)]

(***************************************************************************)
(* Exceptions and responses.                                               *)
(***************************************************************************)
NoExc == [type |-> "none", status_code |-> 0, detail |-> ""]

HTTPException(status_code, detail) ==
    [type |-> "HTTPException", status_code |-> status_code, detail |-> detail]

Exception(type, msg) == [type |-> type, status_code |-> 0, detail |-> msg]

\* str(e): Starlette renders an HTTPException as "<status_code>: <detail>",
\* any other exception renders as its message
str_exc(e) ==
    IF e.type = "HTTPException"
    THEN ToString(e.status_code) \o ": " \o e.detail
    ELSE e.detail

\* the prefix of play_url
API_GAME == <<"/","a","p","i","/","g","a","m","e","/">>

\* an HTTP response, together with the request it answers (prompt_len or
\* game_id) and, for a generation, the text the generation call returned
Response(op, status, detail, game_id, body, prompt_len, text) ==
    [op |-> op, status |-> status, detail |-> detail, game_id |-> game_id,
     message |-> IF op = "generate" /\ status = 200
                 THEN "Game generated successfully!" ELSE "",
     play_url |-> IF op = "generate" /\ status = 200
                  THEN API_GAME \o game_id ELSE NoText,
     body |-> body, prompt_len |-> prompt_len, text |-> text]

NoResponse == Response("none", 0, "", NoText, NoText, 0, NoText)

(***************************************************************************)
(* State.                                                                  *)
(***************************************************************************)
VARIABLES
    games,     \* GAMES_DIR: file stem |-> content of <stem>.html
    issued,    \* the identifiers uuid4 has returned so far
    calling,   \* {} or {prompt length of the request whose handler is inside
               \*        model.generate_content}
    produced,  \* history: game_id |-> html_content its generate_game wrote
    resp       \* the response sent last

vars == <<games, issued, calling, produced, resp>>

Init ==
    /\ games = <<>>
    /\ issued = {}
    /\ calling = {}
    /\ produced = <<>>
    /\ resp = NoResponse

(***************************************************************************)
(* POST /api/generate                                                      *)
(***************************************************************************)
\* prompt_valid with the lower limit excluded
prompt_valid_exclusive(prompt_len) ==
    /\ prompt_len > min_length
    /\ prompt_len <= max_length

\* the validation of GameRequest that precedes the handler
prompt_valid(prompt_len) ==
    /\ prompt_len >= min_length
    /\ prompt_len <= max_length

\* The handlers are coroutines of the one event loop uvicorn.run starts;
\* generate_game calls model.generate_content without awaiting, so from the
\* call to its return the loop runs no other handler.
loop_free == calling = {}

\* a request arrives: it is rejected by the validation, or generate_game
\* starts and issues the generation call
PostGenerate(prompt_len) ==
    /\ loop_free
    /\ IF prompt_valid(prompt_len)
       THEN /\ calling' = {prompt_len}
            /\ UNCHANGED <<games, issued, produced, resp>>
       ELSE /\ resp' = Response("generate", 422, "validation error", NoText,
                                NoText, prompt_len, NoText)
            /\ UNCHANGED <<games, issued, calling, produced>>

\* try_block with the document written before the doctype check
try_block_write_first(text, error, game_id, write_ok) ==
    IF text = NoText
    THEN [exc |-> Exception("Exception", error), drew |-> FALSE,
          wrote |-> FALSE, html_content |-> NoText]
    ELSE LET html_content == cleaned[text]
         IN  IF ~write_ok
             THEN [exc |-> Exception("OSError", "write failed"),
                   drew |-> TRUE, wrote |-> FALSE,
                   html_content |-> html_content]
             ELSE IF ~html_starts_correctly(html_content)
             THEN [exc |-> HTTPException(500,
                               "Generated content is not valid HTML"),
                   drew |-> TRUE, wrote |-> TRUE,
                   html_content |-> html_content]
             ELSE [exc |-> NoExc, drew |-> TRUE, wrote |-> TRUE,
                   html_content |-> html_content]

\* the try block of generate_game from the return of the generation call:
\* what it raised, whether uuid4 and write_text were reached, and html_content
try_block(text, error, game_id, write_ok) ==
    IF text = NoText
    THEN [exc |-> Exception("Exception", error), drew |-> FALSE,
          wrote |-> FALSE, html_content |-> NoText]
    ELSE LET html_content == cleaned[text]
         IN  IF ~html_starts_correctly(html_content)
             THEN [exc |-> HTTPException(500,
                               "Generated content is not valid HTML"),
                   drew |-> FALSE, wrote |-> FALSE,
                   html_content |-> html_content]
             ELSE IF ~write_ok
             THEN [exc |-> Exception("OSError", "write failed"),
                   drew |-> TRUE, wrote |-> FALSE,
                   html_content |-> html_content]
             ELSE [exc |-> NoExc, drew |-> TRUE, wrote |-> TRUE,
                   html_content |-> html_content]

\* the except block of generate_game
except_block(e) ==
    HTTPException(500, "Failed to generate game: " \o str_exc(e))

\* what uuid4 can return next: an identifier it has not returned before; once
\* the identifiers of the model are used up, only the runs of generate_game
\* that do not reach uuid4 are followed
FreshUuids == IF Uuids \ issued = {} THEN {NoText} ELSE Uuids \ issued

\* the generation call returns text (or raises error) and generate_game runs
\* to its response; game_id is what uuid4 returns if it is reached, write_ok
\* whether write_text succeeds if it is reached
GenerationEnds(text, error, game_id, write_ok) ==
    /\ calling # {}
    /\ LET r == try_block(text, error, game_id, write_ok)
           prompt_len == CHOOSE n \in calling : TRUE
       IN  /\ r.drew => game_id \in Uuids
           /\ issued' = IF r.drew THEN issued \cup {game_id} ELSE issued
           /\ games' = IF r.wrote
                       THEN (game_id :> write_translate(r.html_content)) @@ games
                       ELSE games
           /\ produced' = IF r.wrote
                          THEN (game_id :> r.html_content) @@ produced
                          ELSE produced
           /\ resp' = IF r.exc = NoExc
                      THEN Response("generate", 200, "", game_id, NoText,
                                    prompt_len, text)
                      ELSE LET h == except_block(r.exc)
                           IN  Response("generate", h.status_code, h.detail,
                                        NoText, NoText, prompt_len, text)
    /\ calling' = {}

GenerationReturns ==
    \E text \in RawTexts, game_id \in FreshUuids, write_ok \in BOOLEAN :
        GenerationEnds(text, "", game_id, write_ok)

GenerationRaises ==
    \E error \in GenerationErrors, game_id \in FreshUuids :
        GenerationEnds(NoText, error, game_id, TRUE)

(***************************************************************************)
(* GET /api/game/{game_id}                                                 *)
(***************************************************************************)
\* get_game without the test that the file exists
get_game_without_exists(dir, game_id) ==
    IF ~parses[game_id]
    THEN Response("get_game", 400, "Invalid game ID format", game_id, NoText,
                  0, NoText)
    ELSE Response("get_game", 200, "", game_id,
                  IF game_id \in DOMAIN dir
                  THEN read_translate(dir[game_id]) ELSE <<>>,
                  0, NoText)

\* the response of get_game over the games directory dir
get_game(dir, game_id) ==
    IF ~parses[game_id]
    THEN Response("get_game", 400, "Invalid game ID format", game_id, NoText,
                  0, NoText)
    ELSE IF game_id \notin DOMAIN dir
    THEN Response("get_game", 404, "Game not found", game_id, NoText,
                  0, NoText)
    ELSE Response("get_game", 200, "", game_id, read_translate(dir[game_id]),
                  0, NoText)

GetGame(game_id) ==
    /\ loop_free
    /\ resp' = get_game(games, game_id)
    /\ UNCHANGED <<games, issued, calling, produced>>

(***************************************************************************)
(* Specification.                                                          *)
(***************************************************************************)
Next ==
    \/ \E prompt_len \in PromptLens : PostGenerate(prompt_len)
    \/ GenerationReturns
    \/ GenerationRaises
    \/ \E game_id \in GameIds : GetGame(game_id)

Spec == Init /\ [][Next]_vars

(***************************************************************************)
(* Vocabulary of the properties, stated independently of the handlers.     *)
(***************************************************************************)
\* the canonical textual form of a UUID: 8-4-4-4-12 hyphenated hexadecimal
IsCanonicalUuid(s) ==
    /\ Len(s) = 36
    /\ \A i \in 1..36 :
          IF i \in {9, 14, 19, 24} THEN s[i] = "-" ELSE s[i] \in HEXDIGITS

\* the lowercase form of doc starts with the literal <!doctype html
BeginsWithDoctype(doc) ==
    /\ Len(doc) >= Len(DOCTYPE)
    /\ \A i \in 1..Len(DOCTYPE) : lower_char(doc[i]) = DOCTYPE[i]

\* the sanitizer as the specification orders it: the bare marker is looked
\* for only when the html marker was not found
SpecSanitize(text) ==
    LET a == strip(text)
        b == IF startswith(a, FENCE_HTML) THEN drop_first(a, 7)
             ELSE IF startswith(a, FENCE) THEN drop_first(a, 3)
             ELSE a
        c == IF endswith(b, FENCE) THEN drop_last(b, 3) ELSE b
    IN  strip(c)

\* the sanitizer with the bare marker looked for in any case, after the html
\* marker was removed or not
TwoStepSanitize(text) ==
    LET a == strip(text)
        b == IF startswith(a, FENCE_HTML) THEN drop_first(a, 7) ELSE a
        c == IF startswith(b, FENCE) THEN drop_first(b, 3) ELSE b
        d == IF endswith(c, FENCE) THEN drop_last(c, 3) ELSE c
    IN  strip(d)

\* the last response answers a generation whose call returned text
GeneratedText == resp.op = "generate" /\ resp.text # NoText

\* the last response reports a failed write of the document
WriteFailed == resp.detail = "Failed to generate game: write failed"

(***************************************************************************)
(* C1: after a successful generate_game, get_game with the returned        *)
(* game_id returns exactly the sanitized html_content that was written,    *)
(* line endings included.                                                  *)
(***************************************************************************)
C1_RoundTrip ==
    (resp.op = "generate" /\ resp.status = 200) =>
        LET got == get_game(games, resp.game_id)
        IN  /\ got.status = 200
            /\ got.body = produced[resp.game_id]

C3_MalformedIs400 ==
    (resp.op = "get_game" /\ ~IsCanonicalUuid(resp.game_id)) =>
        resp.status = 400

(***************************************************************************)
(* C4: get_game with a canonical UUID under which no document was ever     *)
(* stored answers 404 "Game not found", with no body, and leaves the store *)
(* unchanged.                                                              *)
(***************************************************************************)
C4_UnknownIs404 ==
    [][ ( /\ resp' # resp
          /\ resp'.op = "get_game"
          /\ IsCanonicalUuid(resp'.game_id)
          /\ resp'.game_id \notin DOMAIN produced )
        => ( /\ resp'.status = 404
             /\ resp'.detail = "Game not found"
             /\ resp'.body = NoText
             /\ games' = games ) ]_vars

C4_Witness ==
    /\ resp.op = "get_game"
    /\ IsCanonicalUuid(resp.game_id)
    /\ resp.game_id \notin DOMAIN produced
    /\ resp.status = 404
    /\ DOMAIN games # {}

(***************************************************************************)
(* C5: after two successful generate_game calls, get_game on each of the   *)
(* two identifiers returns the document its own call produced.             *)
(***************************************************************************)
C5_IndependentDocuments ==
    Cardinality(DOMAIN produced) >= 2 =>
        \A game_id \in DOMAIN produced :
            LET got == get_game(games, game_id)
            IN  /\ got.status = 200
                /\ got.body = produced[game_id]

(***************************************************************************)
(* C6: a prompt of length 10 to 1000 passes validation and the generation  *)
(* call is attempted; any other prompt is rejected with a 4xx response,    *)
(* with no generation call and no write to the store.                      *)
(***************************************************************************)
C6_PromptValidation ==
    [][ \A prompt_len \in PromptLens :
          PostGenerate(prompt_len) =>
            IF prompt_len >= 10 /\ prompt_len <= 1000
            THEN /\ calling' = {prompt_len}
                 /\ resp' = resp
            ELSE /\ resp'.op = "generate"
                 /\ resp'.prompt_len = prompt_len
                 /\ resp'.status >= 400
                 /\ resp'.status <= 499
                 /\ calling' = {}
                 /\ games' = games ]_vars

C6_Witness ==
    /\ calling = {1000}
    /\ resp.op = "generate"
    /\ resp.status = 422
    /\ resp.prompt_len = 1001

(***************************************************************************)
(* C7: when the sanitized output does not start with <!doctype html, the   *)
(* response is a 5xx whose message is exactly "Generated content is not    *)
(* valid HTML".                                                            *)
(***************************************************************************)
C7_FixedMessage ==
    (GeneratedText /\ ~BeginsWithDoctype(TwoStepSanitize(resp.text))) =>
        /\ resp.status >= 500
        /\ resp.status <= 599
        /\ resp.detail = "Generated content is not valid HTML"

(***************************************************************************)
(* C8: while a generate_game request waits on the generation call, a       *)
(* get_game request can still be served.                                   *)
(***************************************************************************)
C8_NoBlocking ==
    calling # {} => ENABLED (\E game_id \in GameIds : GetGame(game_id))

(***************************************************************************)
(* C9: generate_game accepts and stores what the ordered algorithm of the  *)
(* specification yields (html marker, else bare marker, closing marker,    *)
(* trims, doctype check).                                                  *)
(***************************************************************************)
C9_SpecAlgorithm ==
    GeneratedText =>
        LET html == SpecSanitize(resp.text)
        IN  /\ (resp.status = 200 \/ WriteFailed) <=> BeginsWithDoctype(html)
            /\ resp.status = 200 => produced[resp.game_id] = html

\* C9 as amended: the bare marker is looked for in any case, so that an html
\* marker followed by a bare marker are both removed
C9_TwoStepAlgorithm ==
    GeneratedText =>
        LET html == TwoStepSanitize(resp.text)
        IN  /\ (resp.status = 200 \/ WriteFailed) <=> BeginsWithDoctype(html)
            /\ resp.status = 200 => produced[resp.game_id] = html

C9_Witness ==
    /\ resp.op = "generate"
    /\ resp.status = 200
    /\ resp.text = FENCE_HTML \o FENCE \o DOC_LF
    /\ produced[resp.game_id] = DOC_LF

(***************************************************************************)
(* C10: a generate_game that fails at the generation call or at the        *)
(* sanitization leaves the store as it was, answers one 5xx response and   *)
(* issues no identifier.                                                   *)
(***************************************************************************)
C10_FailureLeavesStore ==
    [][ ( /\ calling # {}
          /\ calling' = {}
          /\ \/ resp'.text = NoText
             \/ ~BeginsWithDoctype(TwoStepSanitize(resp'.text)) )
        => ( /\ games' = games
             /\ produced' = produced
             /\ resp'.op = "generate"
             /\ resp'.status >= 500
             /\ resp'.status <= 599
             /\ resp'.game_id = NoText
             /\ resp'.play_url = NoText ) ]_vars

C10_Witness ==
    /\ DOMAIN games # {}
    /\ resp.op = "generate"
    /\ resp.status = 500
    /\ resp.text = NoText
    /\ resp.game_id = NoText

====
